---- MODULE Spec2Model ----
(***************************************************************************)
(* A model of package/support.py: process_data (the schema normaliser),    *)
(* save_figure / read_figure (the figure store and its file naming),       *)
(* load_raw / load_local_data / load_cloud_data (the source loader).       *)
(*                                                                         *)
(* Text is modelled as a sequence of one-character strings, so that the    *)
(* f-strings of the source are real concatenations and int <-> text        *)
(* conversions are real conversions.                                       *)
(***************************************************************************)
EXTENDS Integers, Sequences, FiniteSets, TLC

VARIABLES
    \* process_data: its four arguments and what the call produced
    gdf, gdf_column, data_year, gda_type, nresult,
    \* the file naming of save_figure / read_figure on two keys
    keyA, keyB, addrs,
    \* the figure directory (path -> file text) and the last call on it
    files, lastOp,
    \* concurrent save_figure calls: each writer's position, and the event log
    writers, log,
    \* load_raw: the container, the arguments, the pager returned, the output
    container, rawFiles, loadArgs, loadRet, stdout, yielded

vars == <<gdf, gdf_column, data_year, gda_type, nresult, keyA, keyB, addrs,
          files, lastOp, writers, log,
          container, rawFiles, loadArgs, loadRet, stdout, yielded>>

normVars  == <<gdf, gdf_column, data_year, gda_type, nresult>>
keyVars   == <<keyA, keyB, addrs>>
storeVars == <<files, lastOp>>
concVars  == <<writers, log>>
loadVars  == <<container, rawFiles, loadArgs, loadRet, stdout, yielded>>

-----------------------------------------------------------------------------
(* Bounds of the model *)

\* the most rows a raw table holds
MaxRows == 2
\* the number of concurrent save_figure calls
NumWriters == 2
\* the most blobs the container holds
MaxBlobs == 3

-----------------------------------------------------------------------------
(* Text *)

Digits == <<"0", "1", "2", "3", "4", "5", "6", "7", "8", "9">>

DigitSet == {Digits[i] : i \in 1..10}

DigitVal(c) == (CHOOSE i \in 1..10 : Digits[i] = c) - 1

\* str(n) of a Python int
RECURSIVE NatToStr(_)
NatToStr(n) == IF n < 10 THEN <<Digits[n + 1]>>
               ELSE NatToStr(n \div 10) \o <<Digits[(n % 10) + 1]>>

IntToStr(n) == IF n < 0 THEN <<"-">> \o NatToStr(-n) ELSE NatToStr(n)

\* int(s) of a Python str accepts an optional sign followed by digits
IsDigits(s) == Len(s) > 0 /\ \A i \in 1..Len(s) : s[i] \in DigitSet

IsIntText(s) ==
    \/ IsDigits(s)
    \/ Len(s) > 1 /\ s[1] \in {"-", "+"} /\ IsDigits(Tail(s))

RECURSIVE DigitsToNat(_)
DigitsToNat(s) == IF Len(s) = 0 THEN 0
                  ELSE 10 * DigitsToNat(SubSeq(s, 1, Len(s) - 1)) + DigitVal(s[Len(s)])

StrToInt(s) == IF s[1] = "-" THEN 0 - DigitsToNat(Tail(s))
               ELSE IF s[1] = "+" THEN DigitsToNat(Tail(s))
               ELSE DigitsToNat(s)

Contains(s, c) == \E i \in 1..Len(s) : s[i] = c

IsPrefix(p, s) == Len(p) <= Len(s) /\ SubSeq(s, 1, Len(p)) = p

Range(s) == {s[i] : i \in 1..Len(s)}

\* all sequences over S of length at most n
SeqsUpTo(S, n) == UNION {[1..k -> S] : k \in 0..n}

\* the text literals of the source and of the input data
U        == <<"_">>
T_G01    == <<"G", "0", "1">>
T_G01SA4 == <<"G", "0", "1", "_", "S", "A", "4">>
T_SA4    == <<"S", "A", "4">>
T_SA4LGA == <<"S", "A", "4", "_", "L", "G", "A">>
T_LGA    == <<"L", "G", "A">>
T_AUST   == <<"A", "U", "S", "T">>
T_GDA94  == <<"G", "D", "A", "9", "4">>
T_GDA2020 == <<"G", "D", "A", "2", "0", "2", "0">>
T_NAME   == <<"_", "N", "A", "M", "E", "_">>
T_Location == <<"L", "o", "c", "a", "t", "i", "o", "n">>
T_geometry == <<"g", "e", "o", "m", "e", "t", "r", "y">>
T_str    == <<"s", "t", "r">>
T_int    == <<"i", "n", "t">>
T_pop    == <<"p", "o", "p">>
T_inc    == <<"i", "n", "c">>
T_area   == <<"a", "r", "e", "a">>
T_Population == <<"P", "o", "p", "u", "l", "a", "t", "i", "o", "n">>
T_NA     == <<"N", "/", "A">>
T_42     == <<"4", "2">>
T_7      == <<"7">>
T_Bris   == <<"B", "r", "i", "s">>
T_SA4_NAME_2021 == <<"S", "A", "4", "_", "N", "A", "M", "E", "_", "2", "0", "2", "1">>

-----------------------------------------------------------------------------
(* Tables: a GeoDataFrame is its column labels, its index labels and its   *)
(* rows; a cell is a str, an int, a geometry object or None.               *)

StrCell(s)  == [k |-> "str", s |-> s, n |-> 0]
IntCell(n)  == [k |-> "int", s |-> <<>>, n |-> n]
GeomCell(i) == [k |-> "geom", s |-> <<>>, n |-> i]
NoneCell    == [k |-> "none", s |-> <<>>, n |-> 0]

Frame(columns, index, rows) == [columns |-> columns, index |-> index, rows |-> rows]

EmptyFrame == Frame(<<>>, <<>>, <<>>)

NoError == [exc |-> "", missing |-> <<>>, value |-> <<>>, column |-> <<>>, row |-> -1]

\* the exception a missing column label raises; it lists the missing labels
KeyError(missing) ==
    [exc |-> "KeyError", missing |-> missing, value |-> <<>>, column |-> <<>>, row |-> -1]

\* the exception int() raises on text that is no number: it quotes the text;
\* the table library may add the column label, and has no row to report
ValueError(value, column) ==
    [exc |-> "ValueError", missing |-> <<>>, value |-> value, column |-> column, row |-> -1]

Returned(table) == [ok |-> TRUE, table |-> table, err |-> NoError]
Raised(err)     == [ok |-> FALSE, table |-> EmptyFrame, err |-> err]

\* the position of the first column labelled c
ColPos(frame, c) == CHOOSE j \in 1..Len(frame.columns) :
                        /\ frame.columns[j] = c
                        /\ \A i \in 1..(j - 1) : frame.columns[i] # c

HasColumn(frame, c) == c \in Range(frame.columns)

\* gdf[c]: the cells of column c, top to bottom
Column(frame, c) == [i \in 1..Len(frame.rows) |-> frame.rows[i][ColPos(frame, c)]]

\* a Python dict built by a comprehension over a list: a later entry with the
\* same key replaces the value of an earlier one
DictOf(list, kf, vf) ==
    [key \in {list[i][kf] : i \in 1..Len(list)} |->
        LET last == CHOOSE i \in 1..Len(list) :
                        /\ list[i][kf] = key
                        /\ \A j \in (i + 1)..Len(list) : list[j][kf] # key
        IN  list[last][vf]]

\* the positions from i on at which a boolean mask is true, in order
RECURSIVE Positions(_, _)
Positions(mask, i) ==
    IF i > Len(mask) THEN <<>>
    ELSE (IF mask[i] THEN <<i>> ELSE <<>>) \o Positions(mask, i + 1)

\* the effective column list of process_data
MutGdfColumns(col, year, type) ==
    << [name |-> type \o T_NAME \o IntToStr(year), rename |-> T_Location, type |-> T_str],
       [name |-> T_geometry, rename |-> T_geometry, type |-> T_geometry],
       col >>

GdfColumns(col, year, type) ==
    << [name |-> type \o T_NAME \o IntToStr(year), rename |-> T_Location, type |-> T_str],
       col,
       [name |-> T_geometry, rename |-> T_geometry, type |-> T_geometry] >>

\* gdf[gdf['geometry'] != None]: the comparison is element by element on a
\* geometry column, so exactly the rows holding a geometry are kept, and each
\* keeps its index label
MutFilterGeometry(frame) == frame

FilterGeometry(frame) ==
    LET geom == Column(frame, T_geometry)
        mask == [i \in 1..Len(frame.rows) |-> geom[i] # NoneCell]
        keep == Positions(mask, 1)
    IN  Frame(frame.columns,
              [i \in 1..Len(keep) |-> frame.index[keep[i]]],
              [i \in 1..Len(keep) |-> frame.rows[keep[i]]])

\* gdf.reset_index(drop=True)
ResetIndex(frame) ==
    Frame(frame.columns, [i \in 1..Len(frame.rows) |-> i - 1], frame.rows)

\* the labels of `columns` that the table lacks, in order
MissingColumns(frame, columns) ==
    LET pos == Positions([j \in 1..Len(columns) |-> ~HasColumn(frame, columns[j])], 1)
    IN  [i \in 1..Len(pos) |-> columns[pos[i]]]

\* gdf[columns] with a list of labels: the listed columns in the listed order
Project(frame, columns) ==
    Frame(columns, frame.index,
          [i \in 1..Len(frame.rows) |->
              [j \in 1..Len(columns) |-> frame.rows[i][ColPos(frame, columns[j])]]])

MutSelectColumns(frame, columns) ==
    LET pos == Positions([j \in 1..Len(columns) |-> HasColumn(frame, columns[j])], 1)
    IN  Returned(Project(frame, [i \in 1..Len(pos) |-> columns[pos[i]]]))

SelectColumns(frame, columns) ==
    IF MissingColumns(frame, columns) # <<>>
    THEN Raised(KeyError(MissingColumns(frame, columns)))
    ELSE Returned(Project(frame, columns))

\* gdf.rename(columns=column_names): a label the dict lacks is kept
RenameColumns(frame, column_names) ==
    Frame([j \in 1..Len(frame.columns) |->
              IF frame.columns[j] \in DOMAIN column_names
              THEN column_names[frame.columns[j]] ELSE frame.columns[j]],
          frame.index, frame.rows)

\* whether a cell converts to a dtype
Converts(cell, type) ==
    CASE type = T_str      -> cell.k \in {"str", "int"}
      [] type = T_int      -> cell.k = "int" \/ (cell.k = "str" /\ IsIntText(cell.s))
      [] type = T_geometry -> cell.k \in {"geom", "none"}
      [] OTHER             -> FALSE

\* the converted cell: str(x), int(x), or the geometry as it is
Convert(cell, type) ==
    CASE type = T_str -> IF cell.k = "int" THEN StrCell(IntToStr(cell.n)) ELSE cell
      [] type = T_int -> IF cell.k = "str" THEN IntCell(StrToInt(cell.s)) ELSE cell
      [] OTHER        -> cell

\* whether a cell is of a dtype
HasType(cell, type) ==
    CASE type = T_str      -> cell.k = "str"
      [] type = T_int      -> cell.k = "int"
      [] type = T_geometry -> cell.k \in {"geom", "none"}
      [] OTHER             -> FALSE

\* the (column position, row) pairs whose cell does not convert
BadCells(frame, column_types) ==
    {p \in (1..Len(frame.columns)) \X (1..Len(frame.rows)) :
        /\ frame.columns[p[1]] \in DOMAIN column_types
        /\ ~Converts(frame.rows[p[2]][p[1]], column_types[frame.columns[p[1]]])}

FirstBad(frame, column_types) ==
    CHOOSE p \in BadCells(frame, column_types) :
        \A q \in BadCells(frame, column_types) :
            p[1] < q[1] \/ (p[1] = q[1] /\ p[2] <= q[2])

\* every cell of a converted column, converted (a cell that does not convert
\* is left as it is; astype below never gets that far)
ConvertAll(frame, column_types) ==
    Frame(frame.columns, frame.index,
          [i \in 1..Len(frame.rows) |->
              [j \in 1..Len(frame.columns) |->
                  IF /\ frame.columns[j] \in DOMAIN column_types
                     /\ Converts(frame.rows[i][j], column_types[frame.columns[j]])
                  THEN Convert(frame.rows[i][j], column_types[frame.columns[j]])
                  ELSE frame.rows[i][j]]])

\* gdf.astype(column_types) with a dict: every key must label a column; the
\* columns are converted left to right, each as a whole, and the first cell
\* that does not convert raises.  namesColumn: whether the installed table
\* library appends the column label to the message.
MutAsType(frame, column_types, namesColumn) ==
    Returned(ConvertAll(frame, column_types))

AsType(frame, column_types, namesColumn) ==
    LET absent == {key \in DOMAIN column_types : ~HasColumn(frame, key)}
    IN  IF absent # {}
        THEN Raised(KeyError(<<CHOOSE key \in absent : TRUE>>))
        ELSE IF BadCells(frame, column_types) # {}
        THEN LET p == FirstBad(frame, column_types)
             IN  Raised(ValueError(frame.rows[p[2]][p[1]].s,
                                   IF namesColumn THEN frame.columns[p[1]] ELSE <<>>))
        ELSE Returned(ConvertAll(frame, column_types))

\* process_data(gdf, gdf_column, data_year, gda_type)
process_data(frame, col, year, type, namesColumn) ==
    LET gdf_columns == GdfColumns(col, year, type)
    IN  IF ~HasColumn(frame, T_geometry)
        THEN Raised(KeyError(<<T_geometry>>))
        ELSE
        LET filtered == ResetIndex(FilterGeometry(frame))
            columns  == [i \in 1..Len(gdf_columns) |-> gdf_columns[i].name]
            selected == SelectColumns(filtered, columns)
        IN  IF ~selected.ok THEN selected
            ELSE
            LET column_names == DictOf(gdf_columns, "name", "rename")
                renamed      == RenameColumns(selected.table, column_names)
                column_types == DictOf(gdf_columns, "rename", "type")
            IN  AsType(renamed, column_types, namesColumn)

-----------------------------------------------------------------------------
(* The raw tables and column specs process_data is called with *)

\* one source row: its boundary name, its value and whether it has a geometry
RowSpecs == [name : {T_Bris, T_7},
             pop  : {StrCell(T_42), StrCell(T_NA), IntCell(7)},
             geom : BOOLEAN]

\* the column labels of a source layer: more columns than the three wanted,
\* in another order, without the value column, without a geometry column
Layouts == { <<T_SA4_NAME_2021, T_pop, T_area, T_geometry>>,
             <<T_geometry, T_area, T_pop, T_SA4_NAME_2021>>,
             <<T_SA4_NAME_2021, T_geometry>>,
             <<T_SA4_NAME_2021, T_pop>> }

\* the cell of column c in the i-th source row; a geometry is known by the
\* row it came with
CellOf(c, row, i) ==
    CASE c = T_SA4_NAME_2021 -> StrCell(row.name)
      [] c = T_pop           -> row.pop
      [] c = T_geometry      -> IF row.geom THEN GeomCell(i) ELSE NoneCell
      [] OTHER               -> IntCell(5)

\* what the vector-file reader returns: rows labelled 0..n-1
RawTable(layout, rows) ==
    Frame(layout,
          [i \in 1..Len(rows) |-> i - 1],
          [i \in 1..Len(rows) |-> [j \in 1..Len(layout) |-> CellOf(layout[j], rows[i], i)]])

RawTables == {RawTable(l, r) : l \in Layouts, r \in SeqsUpTo(RowSpecs, MaxRows)}

\* the caller's gdf_column: a value column, the boundary-name column itself,
\* or a column the layer lacks; renamed to a fresh label or to 'Location'
ColumnSpecs == [name   : {T_pop, T_SA4_NAME_2021, T_inc},
                rename : {T_Population, T_Location},
                type   : {T_str, T_int}]

NotCalled == [called |-> FALSE, ret |-> Raised(NoError)]

NormIdle ==
    /\ gdf = EmptyFrame
    /\ gdf_column = [name |-> T_pop, rename |-> T_Population, type |-> T_int]
    /\ data_year = 2021
    /\ gda_type = T_SA4
    /\ nresult = NotCalled

NormInit ==
    /\ gdf \in RawTables
    /\ gdf_column \in ColumnSpecs
    /\ data_year \in {2016, 2021}
    /\ gda_type = T_SA4
    /\ nresult = NotCalled

\* one call of process_data
ProcessData ==
    /\ ~nresult.called
    /\ \E namesColumn \in BOOLEAN :
          nresult' = [called |-> TRUE,
                      ret |-> process_data(gdf, gdf_column, data_year, gda_type, namesColumn)]
    /\ UNCHANGED <<gdf, gdf_column, data_year, gda_type>>
    /\ UNCHANGED <<keyVars, storeVars, concVars, loadVars>>

-----------------------------------------------------------------------------
(* Figure files: save_figure and read_figure *)

T_figure_dir == <<"/", "f", "i", "g", "u", "r", "e", "/">>
T_dot_json   == <<".", "j", "s", "o", "n">>
T_dot_html   == <<".", "h", "t", "m", "l">>
T_json       == <<"j", "s", "o", "n">>
T_html       == <<"h", "t", "m", "l">>
T_png        == <<"p", "n", "g">>
T_w          == <<"/", "w">>
T_v          == <<"/", "v">>

\* a dataset key: the five naming arguments of save_figure and read_figure
Key(year, topic, area, spec, type) ==
    [data_year |-> year, data_topic |-> topic, geo_area |-> area,
     gda_spec |-> spec, gda_type |-> type]

\* a figure is known by the values of its trace
Figures == { <<7>>, <<42, 7>> }

\* the file name save_figure builds
MutSaveFileName(key) ==
    key.data_topic \o U \o key.geo_area \o U \o key.gda_spec

SaveFileName(key) ==
    key.data_topic \o U \o key.gda_type \o U \o IntToStr(key.data_year)
        \o U \o key.geo_area \o U \o key.gda_spec

\* the file name read_figure builds
MutReadFileName(key) ==
    key.data_topic \o U \o IntToStr(key.data_year) \o U \o key.gda_type
        \o U \o key.geo_area \o U \o key.gda_spec

ReadFileName(key) ==
    key.data_topic \o U \o key.gda_type \o U \o IntToStr(key.data_year)
        \o U \o key.geo_area \o U \o key.gda_spec

\* f"{work_dir}/figure/{filename}.json" and its .html twin
JsonPath(work_dir, filename) == work_dir \o T_figure_dir \o filename \o T_dot_json
HtmlPath(work_dir, filename) == work_dir \o T_figure_dir \o filename \o T_dot_html

\* the JSON text of a figure: its values in decimal, comma separated, bracketed
RECURSIVE JoinInts(_)
JoinInts(zs) == IF Len(zs) = 0 THEN <<>>
                ELSE IF Len(zs) = 1 THEN IntToStr(zs[1])
                ELSE IntToStr(zs[1]) \o <<",">> \o JoinInts(Tail(zs))

ToJson(figure) == <<"[">> \o JoinInts(figure) \o <<"]">>

\* the comma separated items of a text from position i on, cur being the item
\* read so far
RECURSIVE SplitItems(_, _, _)
SplitItems(text, i, cur) ==
    IF i > Len(text) THEN <<cur>>
    ELSE IF text[i] = "," THEN <<cur>> \o SplitItems(text, i + 1, <<>>)
    ELSE SplitItems(text, i + 1, Append(cur, text[i]))

\* whether a text is the JSON of a figure
IsJson(text) ==
    /\ Len(text) >= 2 /\ text[1] = "[" /\ text[Len(text)] = "]"
    /\ LET inner == SubSeq(text, 2, Len(text) - 1)
       IN  inner = <<>> \/ \A item \in Range(SplitItems(inner, 1, <<>>)) : IsIntText(item)

\* the figure a JSON text describes
FromJson(text) ==
    LET inner == SubSeq(text, 2, Len(text) - 1)
        items == SplitItems(inner, 1, <<>>)
    IN  IF inner = <<>> THEN <<>>
        ELSE [i \in 1..Len(items) |-> StrToInt(items[i])]

\* the standalone page of a figure: its JSON inside markup
ToHtml(figure) == <<"<", "h", "t", "m", "l", ">">> \o ToJson(figure) \o <<"<", "/", "h", "t", "m", "l", ">">>

\* writing a whole file: the path then holds exactly the text
WriteText(fs, path, text) ==
    [q \in DOMAIN fs \cup {path} |-> IF q = path THEN text ELSE fs[q]]

\* save_figure(work_dir, figure, file_type, ...key): the files afterwards
MutSaveFigure(fs, work_dir, figure, file_type, key) ==
    LET filename == SaveFileName(key)
    IN  IF file_type = T_html
        THEN WriteText(fs, HtmlPath(work_dir, filename), ToHtml(figure))
        ELSE WriteText(fs, JsonPath(work_dir, filename), ToJson(figure))

save_figure(fs, work_dir, figure, file_type, key) ==
    LET filename == SaveFileName(key)
    IN  IF file_type = T_html
        THEN WriteText(fs, HtmlPath(work_dir, filename), ToHtml(figure))
        ELSE IF file_type = T_json
        THEN WriteText(fs, JsonPath(work_dir, filename), ToJson(figure))
        ELSE fs

\* read_figure(work_dir, ...key): the figure, or the error of a missing file
MutReadFigure(fs, work_dir, key) ==
    LET filename == ReadFileName(key)
    IN  IF JsonPath(work_dir, filename) \in DOMAIN fs
        THEN [ok |-> TRUE, figure |-> FromJson(fs[JsonPath(work_dir, filename)]), exc |-> ""]
        ELSE IF HtmlPath(work_dir, filename) \in DOMAIN fs
        THEN LET page == fs[HtmlPath(work_dir, filename)]
             IN  [ok |-> TRUE, figure |-> FromJson(SubSeq(page, 7, Len(page) - 7)), exc |-> ""]
        ELSE [ok |-> FALSE, figure |-> <<>>, exc |-> "FileNotFoundError"]

read_figure(fs, work_dir, key) ==
    LET filename == ReadFileName(key)
        path     == JsonPath(work_dir, filename)
    IN  IF path \notin DOMAIN fs
        THEN [ok |-> FALSE, figure |-> <<>>, exc |-> "FileNotFoundError"]
        ELSE IF ~IsJson(fs[path])
        THEN [ok |-> FALSE, figure |-> <<>>, exc |-> "ValueError"]
        ELSE [ok |-> TRUE, figure |-> FromJson(fs[path]), exc |-> ""]

\* the keys and work directories the figure store is exercised with
K2021 == Key(2021, T_G01, T_AUST, T_GDA2020, T_SA4)
K2016 == Key(2016, T_G01, T_AUST, T_GDA94, T_LGA)

StoreKeys == {K2021, K2016}

\* (work directory, key) pairs the store is called with
Targets == { <<T_w, K2021>>, <<T_w, K2016>>, <<T_v, K2021>> }

FileTypes == {T_json, T_html, T_png}

NoFiles == [q \in {} |-> <<>>]

NoOp == [op |-> "none", work_dir |-> <<>>, key |-> K2021, file_type |-> <<>>,
         figure |-> <<>>, ok |-> TRUE, exc |-> ""]

StoreIdle == files = NoFiles /\ lastOp = NoOp

StoreInit == StoreIdle

\* one call of save_figure; it returns None whatever the file type
SaveFigure ==
    /\ \E t \in Targets, figure \in Figures, file_type \in FileTypes :
          /\ files' = save_figure(files, t[1], figure, file_type, t[2])
          /\ lastOp' = [op |-> "save", work_dir |-> t[1], key |-> t[2],
                        file_type |-> file_type, figure |-> figure,
                        ok |-> TRUE, exc |-> ""]
    /\ UNCHANGED <<normVars, keyVars, concVars, loadVars>>

\* one call of read_figure
ReadFigure ==
    /\ \E t \in Targets :
          LET r == read_figure(files, t[1], t[2])
          IN  lastOp' = [op |-> "read", work_dir |-> t[1], key |-> t[2],
                         file_type |-> <<>>, figure |-> r.figure,
                         ok |-> r.ok, exc |-> r.exc]
    /\ UNCHANGED files
    /\ UNCHANGED <<normVars, keyVars, concVars, loadVars>>

-----------------------------------------------------------------------------
(* The file name as a function of the key *)

\* keys over a vocabulary in which a token may itself hold the separator
KeySpace == { Key(y, t, T_AUST, s, g) :
                y \in {2016, 2021}, t \in {T_G01, T_G01SA4},
                s \in {T_GDA94, T_GDA2020}, g \in {T_SA4, T_LGA, T_SA4LGA} }

NoNames == [built |-> FALSE, save |-> <<>>, read |-> <<>>]

KeyIdle == keyA = K2021 /\ keyB = K2021 /\ addrs = NoNames

KeyInit == keyA \in KeySpace /\ keyB \in KeySpace /\ addrs = NoNames

\* the names save_figure and read_figure build for the two keys
BuildNames ==
    /\ ~addrs.built
    /\ addrs' = [built |-> TRUE,
                 save |-> <<SaveFileName(keyA), SaveFileName(keyB)>>,
                 read  |-> <<ReadFileName(keyA), ReadFileName(keyB)>>]
    /\ UNCHANGED <<keyA, keyB>>
    /\ UNCHANGED <<normVars, storeVars, concVars, loadVars>>

-----------------------------------------------------------------------------
(* Concurrent save_figure calls.  The write of save_figure opens the file   *)
(* for writing, which empties it, and then writes the text from the start   *)
(* of the file through its own handle; nothing in save_figure holds a lock, *)
(* so the steps of two calls interleave freely.                             *)

Writers == 1..NumWriters

IdleWriter == [pc |-> "idle", work_dir |-> <<>>, key |-> K2021,
               file_type |-> <<>>, figure |-> <<>>]

\* the path a call writes
WriterPath(w) ==
    IF w.file_type = T_html THEN HtmlPath(w.work_dir, SaveFileName(w.key))
    ELSE JsonPath(w.work_dir, SaveFileName(w.key))

\* the text a call writes
WriterText(w) == IF w.file_type = T_html THEN ToHtml(w.figure) ELSE ToJson(w.figure)

\* open(path, 'w'): the file exists and is empty
MutTruncate(fs, path) == IF path \in DOMAIN fs THEN fs ELSE WriteText(fs, path, <<>>)

Truncate(fs, path) == WriteText(fs, path, <<>>)

\* write(text) through a handle at offset 0: the text replaces what the file
\* holds there, and what the file holds past the text stays
WriteAtStart(fs, path, text) ==
    WriteText(fs, path, text \o SubSeq(fs[path], Len(text) + 1, Len(fs[path])))

ConcIdle == writers = [w \in Writers |-> IdleWriter] /\ log = <<>>

ConcInit == ConcIdle /\ files = NoFiles /\ lastOp = NoOp

\* a call of save_figure reaches its write and opens the file
OpenFile(w) ==
    /\ writers[w].pc = "idle"
    /\ \E key \in StoreKeys, figure \in Figures, file_type \in {T_json, T_html} :
          LET me == [pc |-> "opened", work_dir |-> T_w, key |-> key,
                     file_type |-> file_type, figure |-> figure]
          IN  /\ writers' = [writers EXCEPT ![w] = me]
              /\ files' = Truncate(files, WriterPath(me))
    /\ log' = Append(log, <<w, "open">>)
    /\ UNCHANGED lastOp
    /\ UNCHANGED <<normVars, keyVars, loadVars>>

\* the call writes its text, closes the file and returns
WriteFile(w) ==
    /\ writers[w].pc = "opened"
    /\ writers' = [writers EXCEPT ![w].pc = "done"]
    /\ files' = WriteAtStart(files, WriterPath(writers[w]), WriterText(writers[w]))
    /\ log' = Append(log, <<w, "write">>)
    /\ UNCHANGED lastOp
    /\ UNCHANGED <<normVars, keyVars, loadVars>>

\* a call with a file type that is neither html nor json returns at once
SkipFile(w) ==
    /\ writers[w].pc = "idle"
    /\ \E key \in StoreKeys, figure \in Figures :
          writers' = [writers EXCEPT ![w] =
                         [pc |-> "done", work_dir |-> T_w, key |-> key,
                          file_type |-> T_png, figure |-> figure]]
    /\ log' = Append(log, <<w, "skip">>)
    /\ UNCHANGED <<files, lastOp>>
    /\ UNCHANGED <<normVars, keyVars, loadVars>>

-----------------------------------------------------------------------------
(* load_raw, load_local_data and load_cloud_data *)

T_container_name == <<"a", "u", "s", "t", "r", "a", "l", "i", "a", "n", "-", "c", "e", "n", "s", "u", "s", "-", "d", "a", "t", "a">>

BlobNames == { <<"a">>, <<"b">> }

\* f'{work_dir}/raw/{folder}/{file}' of load_local_data
LocalFileName(work_dir, key) ==
    LET folder == <<"G", "e", "o", "p", "a", "c", "k", "a", "g", "e", "_">> \o IntToStr(key.data_year) \o U \o key.data_topic
                      \o U \o key.geo_area \o U \o key.gda_spec
        file   == key.data_topic \o U \o key.geo_area \o U \o key.gda_spec \o <<".", "g", "p", "k", "g">>
    IN  work_dir \o <<"/", "r", "a", "w", "/">> \o folder \o <<"/">> \o file

\* the layer of load_local_data
LocalLayer(key) ==
    key.data_topic \o U \o key.gda_type \o U \o IntToStr(key.data_year) \o U \o key.geo_area

\* load_local_data: the reader finds the layer of the file, or raises
load_local_data(raw, work_dir, key) ==
    IF <<LocalFileName(work_dir, key), LocalLayer(key)>> \in raw
    THEN [kind |-> "table", items |-> <<>>, pos |-> 0, exc |-> ""]
    ELSE [kind |-> "error", items |-> <<>>, pos |-> 0, exc |-> "SourceNotFound"]

\* container_client.list_blobs(): a pager over the blobs of the container,
\* an iterator that is its own __iter__ and starts before the first blob
ListBlobs(blobs) == [kind |-> "pager", items |-> blobs, pos |-> 0, exc |-> ""]

\* for blob in blobs: print(blob.name) -- the loop draws every item of the
\* pager, which is then at its end
PrintedLines(pager) == SubSeq(pager.items, pager.pos + 1, Len(pager.items))

Drained(pager) == [pager EXCEPT !.pos = Len(pager.items)]

\* load_cloud_data(conn_str): what it prints and what it returns
load_cloud_data(blobs, conn_ok) ==
    IF ~conn_ok
    THEN [out |-> <<>>,
          ret |-> [kind |-> "error", items |-> <<>>, pos |-> 0, exc |-> "ConnectionError"]]
    ELSE LET container_name == T_container_name
             pager == ListBlobs(blobs)
         IN  [out |-> <<<<"B", "l", "o", "b", "s", " ", "i", "n", " ", "t", "h", "e", " ", "c", "o", "n", "t", "a", "i", "n", "e", "r", " ", "'">> \o container_name \o <<"'", ":">>>>
                          \o PrintedLines(pager),
              ret |-> Drained(pager)]

\* load_raw(work_dir, data_config, cloud, overwrite)
load_raw(blobs, raw, work_dir, data_config, cloud, overwrite) ==
    IF cloud
    THEN load_cloud_data(blobs, data_config.conn_ok)
    ELSE [out |-> <<>>, ret |-> load_local_data(raw, work_dir, data_config.key)]

NotLoaded == [kind |-> "none", items |-> <<>>, pos |-> 0, exc |-> ""]

NoArgs == [cloud |-> FALSE, overwrite |-> FALSE, conn_ok |-> TRUE, key |-> K2021]

NothingYielded == [items |-> <<>>, done |-> FALSE]

LoadIdle ==
    /\ container = <<>>
    /\ rawFiles = {}
    /\ loadArgs = NoArgs
    /\ loadRet = NotLoaded
    /\ stdout = <<>>
    /\ yielded = NothingYielded

LoadInit ==
    /\ container \in SeqsUpTo(BlobNames, MaxBlobs)
    /\ rawFiles \in { {}, {<<LocalFileName(T_w, K2021), LocalLayer(K2021)>>} }
    /\ loadArgs \in [cloud : BOOLEAN, overwrite : BOOLEAN, conn_ok : BOOLEAN,
                     key : StoreKeys]
    /\ loadRet = NotLoaded
    /\ stdout = <<>>
    /\ yielded = NothingYielded

\* one call of load_raw
LoadRaw ==
    /\ loadRet.kind = "none"
    /\ LET r == load_raw(container, rawFiles, T_w, loadArgs, loadArgs.cloud,
                         loadArgs.overwrite)
       IN  loadRet' = r.ret /\ stdout' = stdout \o r.out
    /\ UNCHANGED <<container, rawFiles, loadArgs, yielded>>
    /\ UNCHANGED <<normVars, keyVars, storeVars, concVars>>

\* the caller draws the next item of the pager it was returned
CallerNext ==
    /\ loadRet.kind = "pager"
    /\ ~yielded.done
    /\ IF loadRet.pos < Len(loadRet.items)
       THEN /\ yielded' = [yielded EXCEPT !.items = Append(@, loadRet.items[loadRet.pos + 1])]
            /\ loadRet' = [loadRet EXCEPT !.pos = @ + 1]
       ELSE /\ yielded' = [yielded EXCEPT !.done = TRUE]
            /\ UNCHANGED loadRet
    /\ UNCHANGED <<container, rawFiles, loadArgs, stdout>>
    /\ UNCHANGED <<normVars, keyVars, storeVars, concVars>>

-----------------------------------------------------------------------------
(* Specifications *)

\* process_data on every raw table and column spec
Init == NormInit /\ KeyIdle /\ StoreIdle /\ ConcIdle /\ LoadIdle

Next == ProcessData

Spec == Init /\ [][Next]_vars

\* the file names of two keys
InitKey == NormIdle /\ KeyInit /\ StoreIdle /\ ConcIdle /\ LoadIdle

NextKey == BuildNames

SpecKey == InitKey /\ [][NextKey]_vars

\* sequential calls of save_figure and read_figure on one figure directory
InitStore == NormIdle /\ KeyIdle /\ StoreInit /\ ConcIdle /\ LoadIdle

NextStore == SaveFigure \/ ReadFigure

SpecStore == InitStore /\ [][NextStore]_vars

\* concurrent calls of save_figure
InitConc == NormIdle /\ KeyIdle /\ ConcInit /\ LoadIdle

NextConc == \E w \in Writers : OpenFile(w) \/ WriteFile(w) \/ SkipFile(w)

SpecConc == InitConc /\ [][NextConc]_vars

\* load_raw and the caller's use of what it returns
InitLoad == NormIdle /\ KeyIdle /\ StoreIdle /\ ConcIdle /\ LoadInit

NextLoad == LoadRaw \/ CallerNext

SpecLoad == InitLoad /\ [][NextLoad]_vars

-----------------------------------------------------------------------------
(* Properties of process_data, checked under Spec *)

Ret == nresult.ret

\* the labels process_data asks the table for
WantedNames == {gda_type \o T_NAME \o IntToStr(data_year), gdf_column.name, T_geometry}

AllWantedPresent == \A c \in WantedNames : HasColumn(gdf, c)

\* the source rows that hold a geometry
LiveRows == {i \in 1..Len(gdf.rows) :
                HasColumn(gdf, T_geometry) /\ Column(gdf, T_geometry)[i] # NoneCell}

\* the dtype declared for an output label: 'geometry' for geometry, the
\* caller's for the caller's label, 'str' for Location otherwise
DeclaredType(label) ==
    IF label = T_geometry THEN T_geometry
    ELSE IF label = gdf_column.rename THEN gdf_column.type
    ELSE T_str

\* C1: the table process_data returns holds exactly the source rows with a
\* geometry, in source order, labelled 0..N-1: no returned row has a null
\* geometry, every source row with a geometry is returned once, the returned
\* geometries come in the order of their source rows together with the
\* boundary name of that row, and the table is no longer than the input.
C1_GeometryFilter ==
    (nresult.called /\ Ret.ok) =>
        LET t == Ret.table
            n == Len(t.rows)
            g == [i \in 1..n |-> t.rows[i][Len(t.columns)]]
        IN  /\ n <= Len(gdf.rows)
            /\ n = Cardinality(LiveRows)
            /\ t.index = [i \in 1..n |-> i - 1]
            /\ \A i \in 1..n : g[i].k = "geom" /\ g[i].n \in LiveRows
            /\ \A i \in 1..n, j \in 1..n : i < j => g[i].n < g[j].n
            /\ \A i \in 1..n : \E ty \in {T_str, T_int} :
                   LET src == Column(gdf, gda_type \o T_NAME \o IntToStr(data_year))[g[i].n]
                   IN  Converts(src, ty) /\ t.rows[i][1] = Convert(src, ty)

\* a call on two rows, the first without a geometry, that returned the second
C1_Witness ==
    /\ nresult.called /\ Ret.ok
    /\ Len(gdf.rows) = 2
    /\ Len(Ret.table.rows) = 1
    /\ Ret.table.rows[1][3] = GeomCell(2)

\* C2: whatever columns the source has, a returned table has exactly the
\* three columns Location, the caller's rename, geometry, in that order.
C2_ThreeColumns ==
    (nresult.called /\ Ret.ok) =>
        /\ Ret.table.columns = <<T_Location, gdf_column.rename, T_geometry>>
        /\ \A i \in 1..Len(Ret.table.rows) : Len(Ret.table.rows[i]) = 3

\* a table returned from a four-column source in another column order
C2_Witness ==
    /\ nresult.called /\ Ret.ok
    /\ gdf.columns = <<T_geometry, T_area, T_pop, T_SA4_NAME_2021>>
    /\ gdf_column.name = T_pop
    /\ Len(Ret.table.rows) = 2

\* C3: when the boundary-name column, the caller's column or geometry is not
\* a column of the source, the call raises the column-not-found error for
\* labels that are missing, and returns no table.
C3_MissingColumnRaises ==
    (nresult.called /\ ~AllWantedPresent) =>
        /\ ~Ret.ok
        /\ Ret.table = EmptyFrame
        /\ Ret.err.exc = "KeyError"
        /\ Ret.err.missing # <<>>
        /\ \A c \in Range(Ret.err.missing) : c \in WantedNames /\ ~HasColumn(gdf, c)

\* a call that named a value column the source lacks, on a source with a row
\* that has a geometry
C3_Witness ==
    /\ nresult.called /\ ~Ret.ok
    /\ gdf_column.name = T_inc
    /\ data_year = 2021
    /\ HasColumn(gdf, T_geometry)
    /\ LiveRows # {}
    /\ Ret.err.missing = <<T_inc>>

\* a surviving row holds a value that does not convert to the declared dtype
\* of the output column it goes to
BadValues ==
    {p \in LiveRows \X {1, 2} :
        LET src == IF p[2] = 1 THEN gda_type \o T_NAME \o IntToStr(data_year)
                   ELSE gdf_column.name
            out == IF p[2] = 1 /\ gdf_column.name # src THEN T_Location
                   ELSE gdf_column.rename
        IN  ~Converts(Column(gdf, src)[p[1]], DeclaredType(out))}

-----------------------------------------------------------------------------
(* Properties of the figure store, checked under SpecStore *)

IsJsonSave(o) == o.op = "save" /\ o.file_type = T_json
IsRead(o)     == o.op = "read"

\* C5: round trip -- a read_figure that directly follows a save_figure with
\* file type 'json', the same work directory and the same key succeeds and
\* returns the figure that was saved.
C5_RoundTrip ==
    [][ (IsJsonSave(lastOp) /\ IsRead(lastOp')
            /\ lastOp'.work_dir = lastOp.work_dir /\ lastOp'.key = lastOp.key)
        => (lastOp'.ok /\ lastOp'.figure = lastOp.figure) ]_vars

\* a read that returned the two-value figure from the second work directory,
\* while the other key's file holds another figure
C5_Witness ==
    /\ IsRead(lastOp) /\ lastOp.ok
    /\ lastOp.work_dir = T_v
    /\ lastOp.figure = <<42, 7>>
    /\ JsonPath(T_w, SaveFileName(K2016)) \in DOMAIN files
    /\ files[JsonPath(T_w, SaveFileName(K2016))] = ToJson(<<7>>)

C10_OtherTypeWritesNothing ==
    [][ (lastOp'.op = "save" /\ lastOp'.file_type \notin {T_html, T_json})
        => (files' = files /\ lastOp'.ok /\ lastOp'.exc = "") ]_vars

\* a png save just returned for a key that has no json file, while the
\* store holds two files of other saves
C10_Witness ==
    /\ lastOp.op = "save" /\ lastOp.file_type = T_png
    /\ JsonPath(lastOp.work_dir, SaveFileName(lastOp.key)) \notin DOMAIN files
    /\ Cardinality(DOMAIN files) = 2

-----------------------------------------------------------------------------
(* Properties of the file name, checked under SpecKey *)

KeyFields(key) == {key.data_topic, key.gda_type, key.geo_area, key.gda_spec}

NoSeparator(key) == \A f \in KeyFields(key) : ~Contains(f, "_")

\* C7 as stated: the file name is deterministic and injective -- two distinct
\* keys never get the same name.
C7_Injective ==
    addrs.built =>
        /\ keyA = keyB => addrs.save[1] = addrs.save[2]
        /\ keyA # keyB => addrs.save[1] # addrs.save[2]

\* C7, amended: the file name is deterministic (equal keys get equal names,
\* and read_figure builds the name save_figure builds), and it is injective on
\* the keys whose text fields do not contain the separator '_'.
C7_InjectiveWithoutSeparator ==
    addrs.built =>
        /\ keyA = keyB => addrs.save[1] = addrs.save[2]
        /\ addrs.read = addrs.save
        /\ (keyA # keyB /\ NoSeparator(keyA) /\ NoSeparator(keyB))
              => addrs.save[1] # addrs.save[2]

\* two keys without a separator that differ in the boundary type only
C7_Witness ==
    /\ addrs.built
    /\ NoSeparator(keyA) /\ NoSeparator(keyB)
    /\ keyA.gda_type # keyB.gda_type
    /\ [keyA EXCEPT !.gda_type = keyB.gda_type] = keyB
    /\ addrs.save[1] # addrs.save[2]

-----------------------------------------------------------------------------
(* Properties of concurrent saves, checked under SpecConc *)

AllDone == \A w \in Writers : writers[w].pc = "done"

\* the positions of the log at which a call wrote the file at path
WritesTo(path) ==
    {i \in 1..Len(log) :
        log[i][2] = "write" /\ WriterPath(writers[log[i][1]]) = path}

LastWriteTo(path) == CHOOSE i \in WritesTo(path) : \A j \in WritesTo(path) : j <= i

\* the call that completed its write of path last
LastWriter(path) == writers[log[LastWriteTo(path)][1]]

\* the position at which the last writer of path opened it
OpenOfLast(path) ==
    CHOOSE i \in 1..Len(log) :
        log[i][2] = "open" /\ log[i][1] = log[LastWriteTo(path)][1]

\* no other call wrote the path between the last writer's open and its write
Undisturbed(path) ==
    \A j \in WritesTo(path) : j <= OpenOfLast(path) \/ j = LastWriteTo(path)

\* the text at a path, or nothing
Content(fs, path) == IF path \in DOMAIN fs THEN <<fs[path]>> ELSE <<>>

\* a step leaves the file of every other (key, file type) as it was
OthersUntouched ==
    (log' # log) =>
        LET me == writers'[log'[Len(log')][1]]
        IN  \A key \in StoreKeys, ft \in {T_json, T_html} :
                (key # me.key \/ ft # me.file_type) =>
                    LET other == [me EXCEPT !.key = key, !.file_type = ft]
                    IN  Content(files', WriterPath(other)) = Content(files, WriterPath(other))

-----------------------------------------------------------------------------
(* Properties of load_raw, checked under SpecLoad *)

\* C8: in remote mode the value load_raw returns yields the name of every
\* blob of the container, in the store's order, and nothing when the
\* container is empty: a caller that draws from it until it ends has drawn
\* exactly the container's blobs.
C8_YieldsEveryBlob ==
    (loadArgs.cloud /\ loadRet.kind = "pager" /\ yielded.done)
        => yielded.items = container

====
